---- MODULE Spec2Model ----
(***************************************************************************)
(* getRunner (runner discovery and readiness polling).                     *)
(*                                                                         *)
(* One call of getRunner is modelled from one await to the next: every     *)
(* action is the synchronous stretch of code the event loop runs when the  *)
(* awaited promise (factory get, health query, 1 s timer) settles.  The    *)
(* clock `now` is Date.now() in milliseconds; it advances only while the   *)
(* call is suspended on an await.                                          *)
(***************************************************************************)
EXTENDS Integers, FiniteSets, Sequences, TLC

VARIABLES
    env,          \* process.env['IS_RENDER'] as the process holds it
    pc,           \* where the call is suspended: idle, get, query, delay, done
    runnerId,     \* the argument of the call
    isRender,     \* const isRender
    invoked,      \* which factory get() is awaited
    runner,       \* const runner
    timeoutMs,    \* const timeoutMs
    healthCheck,  \* let healthCheck
    startTime,    \* let startTime
    now,          \* Date.now()
    caught,       \* the err bound by the last catch
    outcome,      \* how the promise of getRunner settled
    localGets,    \* calls of LocalRunner.get
    renderGets,   \* calls of RenderRunner.get
    queries,      \* calls of runner.client.health.query
    delays,       \* calls of setTimeout(resolve, 1000)
    stopCalls,    \* calls of runner.stop
    obtainedAt,   \* clock value at which the factory's promise resolved
    okAt,         \* index of the health query that succeeded, 0 if none
    okElapsed,    \* now - obtainedAt when that query succeeded, -1 if none
    slack,        \* time spent since acquisition in queries and timer lateness
    factoryErr,   \* what the factory rejected with, "none" if it did not
    \* Concurrent calls of getRunner: the locals of each call, by call.
    cPc,          \* where each call is suspended
    cId,          \* runnerId of each call
    cRender,      \* isRender of each call
    cRunner,      \* runner of each call
    cTimeout,     \* timeoutMs of each call
    cHealth,      \* healthCheck of each call
    cStart,       \* startTime of each call
    cDue,         \* clock value at which the awaited promise of each call settles
    cOutcome,     \* how the promise of each call settled
    cOwnOk,       \* whether a health query issued by the call itself succeeded
    cExpired,     \* whether timeoutMs had elapsed since startTime when the call settled
    \* SyncRow: the component's React state, its props and its running handlers.
    syncCommandButtonsDisabled,
    showPauseStartLoader,
    showInterruptLoader,
    showTriggerIncrementalLoader,
    modalSpinner,
    openConfirm,
    renderedDisabled, \* syncCommandButtonsDisabled as the committed render's handlers see it
    syncStatus,       \* sync.status
    scheduleStatus,   \* sync.schedule_status
    tasks,            \* invocations of syncCommand / confirmFullRefresh suspended on an await
    apiCalls,         \* calls of runCommandSyncAPI
    clicks,           \* clicks that invoked syncCommand or confirmFullRefresh
    blockedClicks,    \* those of them that returned at the guard
    threw,            \* invocations that ended by throwing
    toastShown        \* variant of the last toast

callVars == <<pc, runnerId, isRender, invoked, runner, timeoutMs, healthCheck,
              startTime, caught, outcome, localGets, renderGets, queries,
              delays, stopCalls, obtainedAt, okAt, okElapsed, slack, factoryErr>>
concVars == <<cPc, cId, cRender, cRunner, cTimeout, cHealth, cStart, cDue,
              cOutcome, cOwnOk, cExpired>>
rowVars == <<syncCommandButtonsDisabled, showPauseStartLoader, showInterruptLoader,
             showTriggerIncrementalLoader, modalSpinner, openConfirm,
             renderedDisabled, syncStatus, scheduleStatus, tasks, apiCalls,
             clicks, blockedClicks, threw, toastShown>>
vars == <<env, now, callVars, concVars, rowVars>>

\* ---------------------------------------------------------------- bounds

MaxFactoryUnits == 1
MaxQueryUnits == 1
MaxJitterUnits == 1
MaxClock == 110000
MaxCallClock == 3000
MaxClicks == 4

EnvValues == {"true", "false", "unset"}
RunnerIds == {"r1", "r2"}
FactoryErrors == {"spawn failed", "render api error"}
HealthErrors == {"timeout", "connection refused"}
Calls == {"a", "b"}

\* How long an awaited operation keeps the call suspended.
FactoryDurations == {k * 1500 : k \in 0..MaxFactoryUnits}
QueryDurations == {k * 1500 : k \in 0..MaxQueryUnits}
TimerJitters == {k * 500 : k \in 0..MaxJitterUnits}

\* ------------------------------------------------------------- the code

DelayMs == 1000

IsRenderTruthy(e) == e # "unset"
IsRender(e) == e = "true"

SelectFactory(r) == IF r THEN "render" ELSE "local"

TimeoutMsSwapped(r) == IF r THEN 10000 ELSE 90000
TimeoutMs(r) == IF r THEN 90000 ELSE 10000

NoRunner == [factory |-> "none", id |-> "none"]
Handle(f, id) == [factory |-> f, id |-> id]

Pending == [kind |-> "pending", runner |-> NoRunner, err |-> "none",
            id |-> "none", timeoutMs |-> 0]
Returned(r) == [kind |-> "returned", runner |-> r, err |-> "none",
                id |-> "none", timeoutMs |-> 0]
Thrown(e) == [kind |-> "thrown", runner |-> NoRunner, err |-> e,
              id |-> "none", timeoutMs |-> 0]

NotStartedErrorFixedTimeout(id, t) ==
    [kind |-> "thrown", runner |-> NoRunner, err |-> "hasn't started",
     id |-> id, timeoutMs |-> 10000]
NotStartedError(id, t) ==
    [kind |-> "thrown", runner |-> NoRunner, err |-> "hasn't started",
     id |-> id, timeoutMs |-> t]

FactoryRejectionWrapped(e) == Thrown("hasn't started")
FactoryRejection(e) == Thrown(e)

CatchesOnlyTimeout(e) == e = "timeout"
Catches(e) == TRUE

LoopCondNoTimeout(hc, elapsed, t) == ~hc
LoopCondIgnoresHealth(hc, elapsed, t) == elapsed < t
LoopCond(hc, elapsed, t) == ~hc /\ elapsed < t

ResultAlwaysReturns(hc, r, id, t) == Returned(r)
Result(hc, r, id, t) == IF ~hc THEN NotStartedError(id, t) ELSE Returned(r)

TimerElapsedNoDelay(j) == j
TimerElapsed(j) == DelayMs + j

FinishWithTeardown(hc, r, t) ==
    /\ pc' = "done"
    /\ outcome' = Result(hc, r, runnerId, t)
    /\ stopCalls' = IF ~hc THEN stopCalls + 1 ELSE stopCalls
Finish(hc, r, t) ==
    /\ pc' = "done"
    /\ outcome' = Result(hc, r, runnerId, t)
    /\ stopCalls' = stopCalls

\* The while condition and what follows it up to the next await or the end
\* of the function: hc, clock, startTime, timeoutMs and runner as they are
\* when the condition is evaluated.
Poll(hc, clock, st, t, r) ==
    IF LoopCond(hc, clock - st, t)
    THEN /\ pc' = "query"
         /\ queries' = queries + 1
         /\ UNCHANGED <<outcome, stopCalls>>
    ELSE /\ queries' = queries
         /\ Finish(hc, r, t)

\* ---------------------------------------------------------------- state

CallInit ==
    /\ pc = "idle"
    /\ runnerId = "none"
    /\ isRender = FALSE
    /\ invoked = "none"
    /\ runner = NoRunner
    /\ timeoutMs = 0
    /\ healthCheck = FALSE
    /\ startTime = 0
    /\ caught = "none"
    /\ outcome = Pending
    /\ localGets = 0
    /\ renderGets = 0
    /\ queries = 0
    /\ delays = 0
    /\ stopCalls = 0
    /\ obtainedAt = 0
    /\ okAt = 0
    /\ okElapsed = -1
    /\ slack = 0
    /\ factoryErr = "none"

ConcInit ==
    /\ cPc = [c \in Calls |-> "idle"]
    /\ cId = [c \in Calls |-> "none"]
    /\ cRender = [c \in Calls |-> FALSE]
    /\ cRunner = [c \in Calls |-> NoRunner]
    /\ cTimeout = [c \in Calls |-> 0]
    /\ cHealth = [c \in Calls |-> FALSE]
    /\ cStart = [c \in Calls |-> 0]
    /\ cDue = [c \in Calls |-> 0]
    /\ cOutcome = [c \in Calls |-> Pending]
    /\ cOwnOk = [c \in Calls |-> FALSE]
    /\ cExpired = [c \in Calls |-> FALSE]

\* The row as first rendered: every useState at its initial value.
RowInit ==
    /\ syncCommandButtonsDisabled = FALSE
    /\ showPauseStartLoader = FALSE
    /\ showInterruptLoader = FALSE
    /\ showTriggerIncrementalLoader = FALSE
    /\ modalSpinner = FALSE
    /\ openConfirm = FALSE
    /\ renderedDisabled = FALSE
    /\ syncStatus = "SUCCESS"
    /\ scheduleStatus = "STARTED"
    /\ tasks = {}
    /\ apiCalls = 0
    /\ clicks = 0
    /\ blockedClicks = 0
    /\ threw = 0
    /\ toastShown = "none"

Init ==
    /\ env \in EnvValues
    /\ now = 0
    /\ CallInit
    /\ ConcInit
    /\ RowInit

\* getRunner(id) up to the await of the selected factory's get(id).
Call ==
    /\ pc = "idle"
    /\ \E id \in RunnerIds :
        /\ runnerId' = id
        /\ isRender' = IsRender(env)
        /\ invoked' = SelectFactory(isRender')
        /\ renderGets' = IF invoked' = "render" THEN renderGets + 1 ELSE renderGets
        /\ localGets' = IF invoked' = "local" THEN localGets + 1 ELSE localGets
        /\ pc' = "get"
    /\ UNCHANGED <<env, runner, timeoutMs, healthCheck, startTime, now, caught,
                   outcome, queries, delays, stopCalls, obtainedAt, okAt,
                   okElapsed, slack, factoryErr>>
    /\ UNCHANGED <<concVars, rowVars>>

\* The factory's promise resolves with a handle: timeoutMs, healthCheck and
\* startTime are set and the loop is entered.
FactoryResolve ==
    /\ pc = "get"
    /\ \E d \in FactoryDurations :
        /\ now + d <= MaxClock
        /\ now' = now + d
        /\ runner' = Handle(invoked, runnerId)
        /\ timeoutMs' = TimeoutMs(isRender)
        /\ healthCheck' = FALSE
        /\ startTime' = now'
        /\ obtainedAt' = now'
        /\ Poll(healthCheck', now', startTime', timeoutMs', runner')
    /\ UNCHANGED <<env, runnerId, isRender, invoked, caught, localGets,
                   renderGets, delays, okAt, okElapsed, slack, factoryErr>>
    /\ UNCHANGED <<concVars, rowVars>>

\* The factory's promise rejects: nothing catches it.
FactoryReject ==
    /\ pc = "get"
    /\ \E d \in FactoryDurations, e \in FactoryErrors :
        /\ now + d <= MaxClock
        /\ now' = now + d
        /\ factoryErr' = e
        /\ outcome' = FactoryRejection(e)
        /\ pc' = "done"
    /\ UNCHANGED <<env, runnerId, isRender, invoked, runner, timeoutMs,
                   healthCheck, startTime, caught, localGets, renderGets,
                   queries, delays, stopCalls, obtainedAt, okAt, okElapsed,
                   slack>>
    /\ UNCHANGED <<concVars, rowVars>>

\* The health query resolves: healthCheck = true, then the loop condition.
HealthResolve ==
    /\ pc = "query"
    /\ \E d \in QueryDurations :
        /\ now + d <= MaxClock
        /\ now' = now + d
        /\ slack' = slack + d
        /\ healthCheck' = TRUE
        /\ okAt' = queries
        /\ okElapsed' = now' - obtainedAt
        /\ Poll(healthCheck', now', startTime, timeoutMs, runner)
    /\ UNCHANGED <<env, runnerId, isRender, invoked, runner, timeoutMs,
                   startTime, caught, localGets, renderGets, delays,
                   obtainedAt, factoryErr>>
    /\ UNCHANGED <<concVars, rowVars>>

\* The health query rejects: the catch block starts the 1 s timer.
HealthReject ==
    /\ pc = "query"
    /\ \E d \in QueryDurations, e \in HealthErrors :
        /\ now + d <= MaxClock
        /\ now' = now + d
        /\ slack' = slack + d
        /\ IF Catches(e)
           THEN /\ caught' = e
                /\ delays' = delays + 1
                /\ pc' = "delay"
                /\ outcome' = outcome
           ELSE /\ caught' = caught
                /\ delays' = delays
                /\ pc' = "done"
                /\ outcome' = Thrown(e)
    /\ UNCHANGED <<env, runnerId, isRender, invoked, runner, timeoutMs,
                   healthCheck, startTime, localGets, renderGets, queries,
                   stopCalls, obtainedAt, okAt, okElapsed, factoryErr>>
    /\ UNCHANGED <<concVars, rowVars>>

\* The timer fires: the loop condition is evaluated again.
TimerFire ==
    /\ pc = "delay"
    /\ \E j \in TimerJitters :
        /\ now + TimerElapsed(j) <= MaxClock
        /\ now' = now + TimerElapsed(j)
        /\ slack' = slack + j
        /\ Poll(healthCheck, now', startTime, timeoutMs, runner)
    /\ UNCHANGED <<env, runnerId, isRender, invoked, runner, timeoutMs,
                   healthCheck, startTime, caught, localGets, renderGets,
                   delays, obtainedAt, okAt, okElapsed, factoryErr>>
    /\ UNCHANGED <<concVars, rowVars>>

Next ==
    \/ Call
    \/ FactoryResolve
    \/ FactoryReject
    \/ HealthResolve
    \/ HealthReject
    \/ TimerFire

Spec == Init /\ [][Next]_vars

\* Every awaited promise settles and the event loop then resumes the call.
Settle == FactoryResolve \/ FactoryReject \/ HealthResolve \/ HealthReject \/ TimerFire
FairSpec == Spec /\ WF_vars(Settle)

TypeOK ==
    /\ env \in EnvValues
    /\ pc \in {"idle", "get", "query", "delay", "done"}
    /\ isRender \in BOOLEAN
    /\ healthCheck \in BOOLEAN
    /\ now \in 0..MaxClock
    /\ queries \in Nat /\ delays \in Nat

\* ------------------------------------------------- concurrent getRunner

\* Calls of getRunner running on one event loop.  Each call has its own
\* locals; the process environment and the clock are the only things the
\* calls have in common, and getRunner only reads them.  A suspended call is
\* resumed at the clock value cDue at which its awaited promise settles, the
\* earliest one first.

Awaiting(c) == cPc[c] \in {"get", "query", "delay"}
Earliest(c) == \A k \in Calls : Awaiting(k) => cDue[c] <= cDue[k]

HealthCheckShared(h, c) == \E k \in Calls : h[k]
HealthCheckOf(h, c) == h[c]

\* The while condition of call c and what follows it, evaluated at `clock`
\* with the locals of the call as the step leaves them.
PollOf(c, clock) ==
    LET hc == HealthCheckOf(cHealth', c) IN
    IF LoopCond(hc, clock - cStart'[c], cTimeout'[c])
    THEN /\ cPc' = [cPc EXCEPT ![c] = "query"]
         /\ \E d \in QueryDurations :
              /\ clock + d <= MaxClock
              /\ cDue' = [cDue EXCEPT ![c] = clock + d]
         /\ UNCHANGED <<cOutcome, cExpired>>
    ELSE /\ cPc' = [cPc EXCEPT ![c] = "done"]
         /\ cOutcome' = [cOutcome EXCEPT
                ![c] = Result(hc, cRunner'[c], cId[c], cTimeout'[c])]
         /\ cExpired' = [cExpired EXCEPT ![c] = clock - cStart'[c] >= cTimeout'[c]]
         /\ cDue' = [cDue EXCEPT ![c] = 0]

\* The calls and the runner ids are interchangeable: the call named "a" is
\* the one made first, and the first call is the one given "r1".
CallOf(c) ==
    /\ cPc[c] = "idle"
    /\ now <= MaxCallClock
    /\ c = "a" \/ cPc["a"] # "idle"
    /\ \E id \in (IF c = "a" THEN {"r1"} ELSE RunnerIds), d \in FactoryDurations :
        /\ now + d <= MaxClock
        /\ cId' = [cId EXCEPT ![c] = id]
        /\ cDue' = [cDue EXCEPT ![c] = now + d]
    /\ cRender' = [cRender EXCEPT ![c] = IsRender(env)]
    /\ cPc' = [cPc EXCEPT ![c] = "get"]
    /\ UNCHANGED <<env, now, callVars, rowVars, cRunner, cTimeout, cHealth, cStart,
                   cOutcome, cOwnOk, cExpired>>

FactoryResolveOf(c) ==
    /\ cPc[c] = "get"
    /\ Earliest(c)
    /\ now' = cDue[c]
    /\ cRunner' = [cRunner EXCEPT ![c] = Handle(SelectFactory(cRender[c]), cId[c])]
    /\ cTimeout' = [cTimeout EXCEPT ![c] = TimeoutMs(cRender[c])]
    /\ cHealth' = [cHealth EXCEPT ![c] = FALSE]
    /\ cStart' = [cStart EXCEPT ![c] = now']
    /\ PollOf(c, now')
    /\ UNCHANGED <<env, callVars, rowVars, cId, cRender, cOwnOk>>

FactoryRejectOf(c) ==
    /\ cPc[c] = "get"
    /\ Earliest(c)
    /\ now' = cDue[c]
    /\ \E e \in FactoryErrors :
        cOutcome' = [cOutcome EXCEPT ![c] = FactoryRejection(e)]
    /\ cPc' = [cPc EXCEPT ![c] = "done"]
    /\ cDue' = [cDue EXCEPT ![c] = 0]
    /\ UNCHANGED <<env, callVars, rowVars, cId, cRender, cRunner, cTimeout, cHealth,
                   cStart, cOwnOk, cExpired>>

HealthResolveOf(c) ==
    /\ cPc[c] = "query"
    /\ Earliest(c)
    /\ now' = cDue[c]
    /\ cHealth' = [cHealth EXCEPT ![c] = TRUE]
    /\ cOwnOk' = [cOwnOk EXCEPT ![c] = TRUE]
    /\ UNCHANGED <<cRunner, cTimeout, cStart>>
    /\ PollOf(c, now')
    /\ UNCHANGED <<env, callVars, rowVars, cId, cRender>>

HealthRejectOf(c) ==
    /\ cPc[c] = "query"
    /\ Earliest(c)
    /\ now' = cDue[c]
    /\ \E e \in HealthErrors, j \in TimerJitters :
        IF Catches(e)
        THEN /\ now' + TimerElapsed(j) <= MaxClock
             /\ cDue' = [cDue EXCEPT ![c] = now' + TimerElapsed(j)]
             /\ cPc' = [cPc EXCEPT ![c] = "delay"]
             /\ UNCHANGED <<cOutcome, cExpired>>
        ELSE /\ cPc' = [cPc EXCEPT ![c] = "done"]
             /\ cOutcome' = [cOutcome EXCEPT ![c] = Thrown(e)]
             /\ cDue' = [cDue EXCEPT ![c] = 0]
             /\ UNCHANGED cExpired
    /\ UNCHANGED <<env, callVars, rowVars, cId, cRender, cRunner, cTimeout, cHealth,
                   cStart, cOwnOk>>

TimerFireOf(c) ==
    /\ cPc[c] = "delay"
    /\ Earliest(c)
    /\ now' = cDue[c]
    /\ UNCHANGED <<cRunner, cTimeout, cStart, cHealth>>
    /\ PollOf(c, now')
    /\ UNCHANGED <<env, callVars, rowVars, cId, cRender, cOwnOk>>

ConcCall == \E c \in Calls : CallOf(c)
ConcFactoryResolve == \E c \in Calls : FactoryResolveOf(c)
ConcFactoryReject == \E c \in Calls : FactoryRejectOf(c)
ConcHealthResolve == \E c \in Calls : HealthResolveOf(c)
ConcHealthReject == \E c \in Calls : HealthRejectOf(c)
ConcTimerFire == \E c \in Calls : TimerFireOf(c)

ConcNext ==
    \/ ConcCall
    \/ ConcFactoryResolve
    \/ ConcFactoryReject
    \/ ConcHealthResolve
    \/ ConcHealthReject
    \/ ConcTimerFire

ConcSpec == Init /\ [][ConcNext]_vars

\* -------------------------------------------------------------- SyncRow

\* A click handler runs to its first await and React then commits the state
\* it set, so the next event finds handlers that close over the new state:
\* every action ends with Commit.  Whether a Button rendered with `disabled`
\* still delivers a click is the Button component's matter; a click is taken
\* to reach its handler in every state, and the handlers' own guards decide.

SyncStatuses == {"RUNNING", "SUCCESS"}
ScheduleStatuses == {"STARTED", "PAUSED"}
ApiResults == {"200", "non200", "none"}
JsonBodies == {"object", "unusable"}

Task(n, fn, command, at) == [n |-> n, fn |-> fn, command |-> command, at |-> at]
InFlight == {t \in tasks : t.at = "api"}

Commit == renderedDisabled' = syncCommandButtonsDisabled'

SyncCommandGuardOff(disabled) == FALSE
SyncCommandGuard(disabled) == disabled

ConfirmGuard(hasSync, disabled) == ~hasSync \/ disabled

PauseOrUnpause(schedule) == IF schedule = "STARTED" THEN "PAUSE" ELSE "UNPAUSE"

\* syncCommand up to the await of runCommandSyncAPI.
SyncCommand(command) ==
    /\ clicks < MaxClicks
    /\ clicks' = clicks + 1
    /\ IF SyncCommandGuard(renderedDisabled)
       THEN /\ blockedClicks' = blockedClicks + 1
            /\ UNCHANGED <<syncCommandButtonsDisabled, tasks, apiCalls>>
       ELSE /\ syncCommandButtonsDisabled' = TRUE
            /\ apiCalls' = apiCalls + 1
            /\ tasks' = tasks \cup {Task(apiCalls + 1, "syncCommand", command, "api")}
            /\ UNCHANGED blockedClicks
    /\ Commit

ClickPauseResume ==
    /\ showPauseStartLoader' = TRUE
    /\ SyncCommand(PauseOrUnpause(scheduleStatus))
    /\ UNCHANGED <<env, now, callVars, concVars, showInterruptLoader,
                   showTriggerIncrementalLoader, modalSpinner, openConfirm,
                   syncStatus, scheduleStatus, threw, toastShown>>

ClickCancel ==
    /\ syncStatus = "RUNNING"
    /\ showInterruptLoader' = TRUE
    /\ SyncCommand("CANCEL")
    /\ UNCHANGED <<env, now, callVars, concVars, showPauseStartLoader,
                   showTriggerIncrementalLoader, modalSpinner, openConfirm,
                   syncStatus, scheduleStatus, threw, toastShown>>

ClickTrigger ==
    /\ syncStatus # "RUNNING"
    /\ showTriggerIncrementalLoader' = TRUE
    /\ SyncCommand("RUN")
    /\ UNCHANGED <<env, now, callVars, concVars, showPauseStartLoader,
                   showInterruptLoader, modalSpinner, openConfirm,
                   syncStatus, scheduleStatus, threw, toastShown>>

\* The dialog's onOpenChange: the trigger opens it, Cancel or Escape closes it.
OpenDialog ==
    /\ syncStatus # "RUNNING"
    /\ ~openConfirm
    /\ openConfirm' = TRUE
    /\ UNCHANGED <<env, now, callVars, concVars, syncCommandButtonsDisabled,
                   showPauseStartLoader, showInterruptLoader,
                   showTriggerIncrementalLoader, modalSpinner, syncStatus,
                   scheduleStatus, tasks, apiCalls, clicks, blockedClicks,
                   threw, toastShown>>
    /\ Commit

CloseDialog ==
    /\ syncStatus # "RUNNING"
    /\ openConfirm
    /\ openConfirm' = FALSE
    /\ UNCHANGED <<env, now, callVars, concVars, syncCommandButtonsDisabled,
                   showPauseStartLoader, showInterruptLoader,
                   showTriggerIncrementalLoader, modalSpinner, syncStatus,
                   scheduleStatus, tasks, apiCalls, clicks, blockedClicks,
                   threw, toastShown>>
    /\ Commit

\* confirmFullRefresh up to the await of runCommandSyncAPI.
ClickConfirm ==
    /\ syncStatus # "RUNNING"
    /\ openConfirm
    /\ clicks < MaxClicks
    /\ clicks' = clicks + 1
    /\ IF ConfirmGuard(TRUE, renderedDisabled)
       THEN /\ blockedClicks' = blockedClicks + 1
            /\ UNCHANGED <<syncCommandButtonsDisabled, modalSpinner, tasks, apiCalls>>
       ELSE /\ syncCommandButtonsDisabled' = TRUE
            /\ modalSpinner' = TRUE
            /\ apiCalls' = apiCalls + 1
            /\ tasks' = tasks \cup {Task(apiCalls + 1, "confirmFullRefresh", "RUN_FULL", "api")}
            /\ UNCHANGED blockedClicks
    /\ Commit
    /\ UNCHANGED <<env, now, callVars, concVars, showPauseStartLoader,
                   showInterruptLoader, showTriggerIncrementalLoader,
                   openConfirm, syncStatus, scheduleStatus, threw, toastShown>>

\* The end of a handler: the toast, then the state it sets back.
Complete(t, variant) ==
    /\ tasks' = tasks \ {t}
    /\ toastShown' = variant
    /\ syncCommandButtonsDisabled' = FALSE
    /\ IF t.fn = "syncCommand"
       THEN /\ showPauseStartLoader' = FALSE
            /\ showInterruptLoader' = FALSE
            /\ showTriggerIncrementalLoader' = FALSE
            /\ UNCHANGED <<modalSpinner, openConfirm>>
       ELSE /\ modalSpinner' = FALSE
            /\ openConfirm' = FALSE
            /\ UNCHANGED <<showPauseStartLoader, showInterruptLoader,
                           showTriggerIncrementalLoader>>
    /\ UNCHANGED threw

\* The handler's promise rejects: nothing after the throwing line runs.
Throw(t) ==
    /\ tasks' = tasks \ {t}
    /\ threw' = threw + 1
    /\ UNCHANGED <<syncCommandButtonsDisabled, showPauseStartLoader,
                   showInterruptLoader, showTriggerIncrementalLoader,
                   modalSpinner, openConfirm, toastShown>>

\* runCommandSyncAPI settles with a 200 response, another response, or
\* undefined.  With undefined, res?.json() is undefined and data.error throws.
ApiSettle ==
    /\ \E t \in InFlight, res \in ApiResults :
        CASE res = "200" ->
                /\ tasks' = (tasks \ {t}) \cup {[t EXCEPT !.at = "mutate"]}
                /\ UNCHANGED <<syncCommandButtonsDisabled, showPauseStartLoader,
                               showInterruptLoader, showTriggerIncrementalLoader,
                               modalSpinner, openConfirm, threw, toastShown>>
          [] res = "non200" ->
                /\ tasks' = (tasks \ {t}) \cup {[t EXCEPT !.at = "json"]}
                /\ UNCHANGED <<syncCommandButtonsDisabled, showPauseStartLoader,
                               showInterruptLoader, showTriggerIncrementalLoader,
                               modalSpinner, openConfirm, threw, toastShown>>
          [] res = "none" -> Throw(t)
    /\ Commit
    /\ UNCHANGED <<env, now, callVars, concVars, syncStatus, scheduleStatus,
                   apiCalls, clicks, blockedClicks>>

\* mutate() resolves after a 200: success toast and the end of the handler.
MutateSettle ==
    /\ \E t \in tasks :
        /\ t.at = "mutate"
        /\ Complete(t, "success")
    /\ Commit
    /\ UNCHANGED <<env, now, callVars, concVars, syncStatus, scheduleStatus,
                   apiCalls, clicks, blockedClicks>>

\* res.json() settles after a non-200: with an object, error toast and the
\* end of the handler; it rejects, or gives null, when the body is no JSON object.
JsonSettle ==
    /\ \E t \in tasks, body \in JsonBodies :
        /\ t.at = "json"
        /\ IF body = "object" THEN Complete(t, "error") ELSE Throw(t)
    /\ Commit
    /\ UNCHANGED <<env, now, callVars, concVars, syncStatus, scheduleStatus,
                   apiCalls, clicks, blockedClicks>>

\* The parent renders the row with a refreshed sync.
SyncPropsChange ==
    /\ \E st \in SyncStatuses, sch \in ScheduleStatuses :
        /\ <<st, sch>> # <<syncStatus, scheduleStatus>>
        /\ syncStatus' = st
        /\ scheduleStatus' = sch
    /\ UNCHANGED <<env, now, callVars, concVars, syncCommandButtonsDisabled,
                   showPauseStartLoader, showInterruptLoader,
                   showTriggerIncrementalLoader, modalSpinner, openConfirm,
                   tasks, apiCalls, clicks, blockedClicks, threw, toastShown>>
    /\ Commit

RowNext ==
    \/ ClickPauseResume
    \/ ClickCancel
    \/ ClickTrigger
    \/ OpenDialog
    \/ CloseDialog
    \/ ClickConfirm
    \/ ApiSettle
    \/ MutateSettle
    \/ JsonSettle
    \/ SyncPropsChange

RowSpec == Init /\ [][RowNext]_vars

\* ------------------------------------------------------------ properties

Max(S) == CHOOSE x \in S : \A y \in S : y <= x
Elapsed == now - obtainedAt
ConfiguredTimeout == IF env = "true" THEN 90000 ELSE 10000
NotStarted(o) == o.kind = "thrown" /\ o.err = "hasn't started"

\* C1: whenever getRunner returns a handle, it is the handle the factory gave
\* and one of the health queries of this call has succeeded on it.
C1_ReturnedHandleAnsweredHealthy ==
    outcome.kind = "returned" =>
        /\ outcome.runner = runner
        /\ runner = Handle(invoked, runnerId)
        /\ okAt >= 1
        /\ okAt <= queries

C1_Witness == outcome.kind = "returned" /\ okAt = 2 /\ caught = "timeout"

\* C2 (as amended): when the loop ends and none of the health queries issued
\* within the timeout window has succeeded, getRunner throws the not-started
\* error carrying the runner id and the timeout value, and returns no handle.
C2_NoSuccessThenNotStartedError ==
    (pc = "done" /\ factoryErr = "none" /\ okAt = 0) =>
        /\ outcome.kind = "thrown"
        /\ outcome.err = "hasn't started"
        /\ outcome.id = runnerId
        /\ outcome.timeoutMs = ConfiguredTimeout
        /\ outcome.runner = NoRunner

C2_Witness ==
    /\ pc = "done" /\ okAt = 0 /\ NotStarted(outcome)
    /\ env = "true" /\ runnerId = "r2"

\* C2 (as claimed): when no successful health response was observed within
\* timeoutMs of the moment the handle was obtained, getRunner throws the
\* not-started error and returns no handle.
C2_NoSuccessInWindowThenError ==
    (pc = "done" /\ factoryErr = "none" /\ ~(okAt >= 1 /\ okElapsed <= ConfiguredTimeout)) =>
        /\ NotStarted(outcome)
        /\ outcome.id = runnerId
        /\ outcome.timeoutMs = ConfiguredTimeout
        /\ outcome.runner = NoRunner

\* C3: once the factory has returned a handle the call terminates, and it
\* terminates by returning the handle or by throwing the not-started error.
C3_PollTerminates ==
    /\ [](( pc = "done" /\ factoryErr = "none") =>
            (outcome.kind = "returned" \/ NotStarted(outcome)))
    /\ (pc \in {"query", "delay"}) ~> (pc = "done")

C3_Witness == pc = "done" /\ NotStarted(outcome) /\ queries >= 5 /\ slack > 0

\* C4: the flag IS_RENDER === 'true' selects one factory; that one is invoked
\* once in the call and the other one never.
C4_ExactlyOneFactoryInvoked ==
    /\ pc = "idle" => (renderGets = 0 /\ localGets = 0)
    /\ (pc # "idle" /\ env = "true") => (renderGets = 1 /\ localGets = 0)
    /\ (pc # "idle" /\ env # "true") => (renderGets = 0 /\ localGets = 1)
    /\ runner # NoRunner => runner.factory = (IF env = "true" THEN "render" ELSE "local")

C4_Witness == pc = "done" /\ env = "false" /\ localGets = 1 /\ runner.factory = "local"

\* C5: a rejection of the factory's get ends the call at once with that same
\* error: no second get, no health query, no delay.
C5_FactoryFailureIsFatal ==
    factoryErr # "none" =>
        /\ pc = "done"
        /\ outcome.kind = "thrown"
        /\ outcome.err = factoryErr
        /\ localGets + renderGets = 1
        /\ queries = 0
        /\ delays = 0

C5_Witness == factoryErr = "render api error" /\ outcome.err = "render api error"

\* C6: no error of a health query reaches the caller; every one of them is
\* followed by a delay, and after acquisition the call fails only with the
\* not-started error and only once timeoutMs has elapsed.
C6_HealthErrorsNeverRethrown ==
    /\ outcome.err \notin HealthErrors
    /\ caught # "none" => delays >= 1
    /\ (outcome.kind = "thrown" /\ factoryErr = "none") =>
            (NotStarted(outcome) /\ Elapsed >= ConfiguredTimeout)

C6_Witness ==
    /\ NotStarted(outcome) /\ caught = "connection refused"
    /\ env = "unset"

\* C7: getRunner never calls stop on the handle, whether it returns it or
\* fails with the not-started error.
C7_NeverStops == stopCalls = 0

C7_Witness ==
    /\ pc = "done" /\ NotStarted(outcome) /\ runner # NoRunner
    /\ stopCalls = 0 /\ delays >= 10

\* C8: the not-started error carries 10000 in local mode and 90000 in remote
\* mode, is not raised before that much time has passed since the handle was
\* obtained, and is raised less than one polling cycle after it.
C8_FailsAtConfiguredTimeout ==
    NotStarted(outcome) =>
        /\ okAt = 0
        /\ outcome.timeoutMs = ConfiguredTimeout
        /\ Elapsed >= ConfiguredTimeout
        /\ Elapsed < ConfiguredTimeout + Max(QueryDurations) + 1000 + Max(TimerJitters)

C8_Witness ==
    /\ NotStarted(outcome) /\ env = "true" /\ Elapsed = 90000
    /\ queries = 90

\* C9: a successful health query ends the call at once: no delay and no
\* health query follows it; when the first query succeeds there has been one
\* query and no delay.
C9_NoDelayAfterSuccess ==
    /\ healthCheck =>
        /\ pc = "done"
        /\ outcome.kind = "returned"
        /\ queries = okAt
        /\ delays = okAt - 1
        /\ Elapsed = okElapsed
    /\ okAt = 1 => (queries = 1 /\ delays = 0 /\ Elapsed = slack)

C9_Witness == outcome.kind = "returned" /\ okAt = 1 /\ delays = 0 /\ Elapsed = 0

\* C10 (as amended): when the Nth health query succeeds there have been N-1
\* delays of 1000 ms, one after each failed query, and the handle is returned
\* (N-1) * 1000 ms after it was obtained, plus the time the queries took and
\* the lateness of the timers.
C10_ReturnsAfterNMinusOneDelays ==
    outcome.kind = "returned" =>
        /\ delays = okAt - 1
        /\ Elapsed = (okAt - 1) * 1000 + slack
        /\ (okAt - 1) * 1000 + slack - Max(QueryDurations) < ConfiguredTimeout

C10_Witness ==
    /\ outcome.kind = "returned" /\ okAt = 3 /\ slack = 0
    /\ Elapsed = 2000

\* C10 (as claimed): with instantaneous queries and exact timers, the handle
\* whose Nth health query succeeds is returned about N seconds after it was
\* obtained, that is nearer to N seconds than to N-1.
C10_ReturnsAfterNSeconds ==
    (outcome.kind = "returned" /\ slack = 0) =>
        /\ Elapsed > okAt * 1000 - 1000
        /\ Elapsed < okAt * 1000 + 1000

\* C11: under any interleaving of concurrent calls, with the same or with
\* different runner ids, a call returns its own handle exactly when one of its
\* own health queries succeeded, and throws the not-started error with its own
\* id exactly when none did and its own timeout had elapsed, whatever the
\* other calls did; a call that has not begun holds nothing of the others.
C11_CallsAreIndependent ==
    \A c \in Calls :
        /\ cOutcome[c].kind = "returned" =>
                /\ cOwnOk[c]
                /\ cOutcome[c].runner =
                     Handle(IF env = "true" THEN "render" ELSE "local", cId[c])
        /\ NotStarted(cOutcome[c]) =>
                /\ ~cOwnOk[c]
                /\ cExpired[c]
                /\ cOutcome[c].id = cId[c]
                /\ cOutcome[c].timeoutMs = ConfiguredTimeout
        /\ cOwnOk[c] => (cPc[c] = "done" /\ cOutcome[c].kind = "returned")
        /\ cPc[c] \in {"query", "delay"} => (~cHealth[c] /\ cOutcome[c] = Pending)
        /\ cPc[c] = "idle" => (~cHealth[c] /\ cRunner[c] = NoRunner /\ cOutcome[c] = Pending)

C11_Witness ==
    /\ cOutcome["a"].kind = "returned"
    /\ cPc["b"] = "delay"
    /\ cId["a"] = cId["b"]
    /\ cStart["b"] < cStart["a"]

\* C12: once every invocation of syncCommand or confirmFullRefresh that
\* passed the guard has ended, whatever runCommandSyncAPI gave it, the command
\* buttons are enabled again and the loaders the invocation raised are cleared.
C12_ButtonsReenabledAfterCommand ==
    (apiCalls >= 1 /\ tasks = {}) =>
        /\ ~syncCommandButtonsDisabled
        /\ ~modalSpinner
        /\ blockedClicks = 0 =>
              /\ ~showPauseStartLoader
              /\ ~showInterruptLoader
              /\ ~showTriggerIncrementalLoader

\* C13: at most one runCommandSyncAPI call of the row is unsettled at any
\* time; while one is, the handlers see the buttons disabled, and every click
\* on a command either issued the one call or returned at the guard.
C13_AtMostOneRequestInFlight ==
    /\ Cardinality(InFlight) <= 1
    /\ InFlight # {} => (syncCommandButtonsDisabled /\ renderedDisabled)
    /\ apiCalls + blockedClicks = clicks

C13_Witness ==
    /\ \E t \in InFlight : t.fn = "confirmFullRefresh"
    /\ blockedClicks >= 2
    /\ showPauseStartLoader
    /\ apiCalls = 2

====
